---- MODULE Spec2Model ----
(***************************************************************************)
(* Model of the voice-chat relay of src/app.py: the in-memory session      *)
(* registry (active_conversations), the HTTP operations that mutate it,    *)
(* and the relay websocket handler with its two pumps.                     *)
(***************************************************************************)
EXTENDS Integers, Sequences, FiniteSets, TLC

\* ------------------------------------------------------------------ bounds

\* Messages the two peers (client and upstream) may deliver over one run.
MaxMsgs == 2

\* ------------------------------------------------------- program constants

CloseNormal == 1000
CloseGoingAway == 1001
HttpOk == 200
HttpBadRequest == 400
HttpNotFound == 404
HttpServerError == 500

\* ---------------------------------------------------------------- universe

\* Relay sockets and record objects of the model; Spec runs one session
\* (one record, one relay socket).
Handlers == {1, 2}
Objs == {1, 2}
Relays == {1}

\* Users and their notification sockets (/ws/notifications/{user_id}).
Users == {"u1"}
NSocks == {1, 2}

NotifId == "notif_u1"
ProvId == "conv_u1_1000"
\* The session id of another provisioning answer.
ProvId2 == "conv_u1_2000"
ProvIds == {ProvId, ProvId2}
CanonId == "abc123"
Keys == {NotifId, ProvId, ProvId2, CanonId}

\* accept_notification requests that may be in flight together.
Reqs == {1, 2}

None == "None"
NoRec == 0

DefaultFirstMessage == "Hello! I am your caregiver. How can I help you today?"
FirstMessages == {None, "fm1"}
SystemPrompts == {None, "sp1"}

\* A text frame is a JSON document or something json.loads rejects.
Garbage == [garbage |-> TRUE]

\* Python bytes values (binary frames), as sequences of octets.
OddFrame == [bytes |-> <<1, 2, 3>>]
EvenFrame == [bytes |-> <<1, 2, 3, 4>>]
BinaryFrames == {OddFrame, EvenFrame}

\* A base64 string, by the octets it encodes.
B64Audio == [b64 |-> <<5, 6>>]

VARIABLES
    active_conversations,   \* registry: key -> record object, or NoRec
    conv,                   \* the record objects (dicts), by object
    resp,                   \* the HTTP response the last step returned
    pc,                     \* relay handler position
    conversation_id,        \* relay handler's local conversation_id
    conversation,           \* relay handler's local conversation (object)
    client_state,           \* starlette WebSocket.client_state
    application_state,      \* starlette WebSocket.application_state
    ws_close,               \* the close the handler sent on the client socket
    up_state,               \* upstream connection: none / open / closed
    up_close,               \* who closed upstream, and with which code
    cpc,                    \* handle_client_audio position
    upc,                    \* handle_elevenlabs_messages position
    elevenlabs_msg,         \* handle_elevenlabs_messages' local elevenlabs_msg
    up_sent,                \* what was sent on the upstream connection
    client_sent,            \* what was sent on the client socket
    client_msg,             \* handle_client_audio's local client_msg
    db_log,                 \* db.store_conversation calls that succeeded
    dialed,                 \* signed urls websockets.connect was called with
    raised,                 \* an exception left the relay handler
    budget,                 \* peer messages still to come
    notification_connections,  \* user id -> notification socket, or NoRec
    nws,                    \* notification socket: idle / open / gone / done
    notif_sent,             \* what was sent on each notification socket
    accepting,              \* the accept_notification requests suspended in
                            \* their provisioning call, if any
    analysis,               \* the analyze_transcript_with_claude call
    table                   \* the conversations table, and the
                            \* store_conversation calls in progress

vars == <<active_conversations, conv, resp, pc, conversation_id, conversation,
          client_state, application_state, ws_close, up_state, up_close,
          cpc, upc, elevenlabs_msg, up_sent, client_sent, client_msg, db_log, dialed,
          raised, budget, notification_connections, nws, notif_sent,
          accepting, analysis, table>>

notifVars == <<notification_connections, nws, notif_sent>>

auxVars == <<analysis, table>>

regVars == <<active_conversations, conv>>
relayVars == <<pc, conversation_id, conversation, client_state,
               application_state, ws_close, up_state, up_close, cpc, upc,
               elevenlabs_msg, up_sent, client_sent, client_msg, db_log, dialed, raised,
               budget>>

\* ----------------------------------------------------------------- helpers

FreeRec == [status |-> "free", websocket |-> NoRec, first_message |-> None,
            system_prompt |-> None, signed_url |-> NoRec,
            needs_db_storage |-> FALSE]

Allocated == {o \in Objs : conv[o].status # "free"}

\* The next object a dict literal creates.
NewObj == CHOOSE o \in Objs \ Allocated : \A p \in Objs \ Allocated : o <= p

Present(k) == active_conversations[k] # NoRec

\* What the upstream provisioner (get_signed_url) may answer.
ProvisionStatuses == {HttpOk, 401}

\* json.dumps: bytes are not JSON serializable (TypeError).
HasBytes(v) == "audio_event" \in DOMAIN v
               /\ "bytes" \in DOMAIN v.audio_event.audio_base_64

json_dumps_ok(v) == ~HasBytes(v)

\* json.loads: a decode failure, or the decoded structure.
json_loads_ok(t) == t # Garbage

\* An HTTP response, and whether the request called the upstream provisioner.
Response(op, code, prov) == [op |-> op, code |-> code, provisioned |-> prov]

\* No HTTP request completed in the last step.
NoResponse == Response("none", 0, FALSE)

\* No accept_notification request is suspended.
NoAccept == [notification_id |-> None, conversation |-> NoRec]

NoAccepts == [r \in Reqs |-> NoAccept]

\* The signed url of a provisioning answer: a token that differs between
\* records and between the session ids the answers carry.
SignedUrl(o, cid) == IF cid = ProvId THEN o ELSE o + Cardinality(Objs)

\* ------------------------------------------ transcript analysis: values

max_retries == 3
retry_delay == 2

\* Transcripts: a list of turns; the last one has a turn without a role.
Transcripts ==
    {<<>>, <<[role |-> "user", message |-> "hi"]>>, <<[message |-> "hi"]>>}

\* Whether the f-string over the turns finds turn['role'] and turn['message'].
WellFormed(t) ==
    \A i \in 1..Len(t) : "role" \in DOMAIN t[i] /\ "message" \in DOMAIN t[i]

\* How the GET of the agent details may end: a 200 answer, a read timeout, a
\* non-200 status, another exception of the HTTP client.
AgentOutcomes == {"ok", "read_timeout", "status", "error"}

\* How the POST to the model API may end: a read timeout, a non-200 status, a
\* 200 answer whose text does not decode, or a 200 answer carrying an analysis
\* with that overall assessment.
ClaudeOutcomes == {"read_timeout", "status", "bad_body", "success", "failure"}

\* The structure decoded from a well-formed answer.
ClaudeAnswer(a) ==
    [analysis |-> [criteria_results |-> <<>>, data_collection_results |-> <<>>,
                   overall_assessment |-> a, summary |-> "summary"]]

\* The error result both except branches build.
ErrorResult(msg) ==
    [error |-> msg,
     analysis |-> [criteria_results |-> <<>>, data_collection_results |-> <<>>,
                   overall_assessment |-> "error", summary |-> msg]]

NoResult == [none |-> TRUE]

\* No analysis has been asked for.
NoAnalysis ==
    [pc |-> "idle", attempt |-> 0, transcript |-> <<>>, log |-> <<>>,
     slept |-> 0, result |-> NoResult]

\* ------------------------------------------ conversations table: values

\* Threads or processes that may call store_conversation together.
Callers == {1, 2}
StoreIds == {CanonId, ProvId}
Details == {"details_a", "details_b"}

NoCall == [pc |-> "idle", id |-> None, details |-> None, existing |-> FALSE]

\* The empty table (with or without a unique key on conversation_id) and no
\* call in progress.
NoStore(unique) ==
    [rows |-> <<>>, unique |-> unique, call |-> [c \in Callers |-> NoCall],
     finished |-> <<>>]

\* -------------------------------------------------------------------- Init

InitApp ==
    /\ active_conversations = [k \in Keys |-> NoRec]
    /\ conv = [o \in Objs |-> FreeRec]
    /\ resp = NoResponse
    /\ pc = [h \in Handlers |-> "idle"]
    /\ conversation_id = [h \in Handlers |-> None]
    /\ conversation = [h \in Handlers |-> NoRec]
    /\ client_state = [h \in Handlers |-> "CONNECTING"]
    /\ application_state = [h \in Handlers |-> "CONNECTING"]
    /\ ws_close = [h \in Handlers |-> [code |-> NoRec, reason |-> ""]]
    /\ up_state = [h \in Handlers |-> "none"]
    /\ up_close = [h \in Handlers |->
                       [by |-> "none", code |-> NoRec, reason |-> ""]]
    /\ cpc = [h \in Handlers |-> "off"]
    /\ upc = [h \in Handlers |-> "off"]
    /\ elevenlabs_msg = [h \in Handlers |-> Garbage]
    /\ up_sent = [h \in Handlers |-> <<>>]
    /\ client_sent = [h \in Handlers |-> <<>>]
    /\ client_msg = [h \in Handlers |-> Garbage]
    /\ db_log = <<>>
    /\ dialed = <<>>
    /\ raised = [h \in Handlers |-> FALSE]
    /\ budget = MaxMsgs
    /\ notification_connections = [u \in Users |-> NoRec]
    /\ nws = [s \in NSocks |-> "idle"]
    /\ notif_sent = [s \in NSocks |-> <<>>]
    /\ accepting = NoAccepts
    /\ analysis = NoAnalysis

Init == InitApp /\ table = NoStore(FALSE)

\* ---------------------------------------------------------- HTTP handlers

\* POST /initiate-call
initiate_call(fm, status) ==
    /\ Objs \ Allocated # {}
    /\ IF status # HttpOk
       THEN /\ resp' = Response("initiate_call", status, TRUE)
            /\ UNCHANGED regVars
       ELSE LET o == NewObj
                cid == ProvId
            IN /\ conv' = [conv EXCEPT ![o] =
                        [status |-> "pending", websocket |-> NoRec,
                         first_message |-> fm, system_prompt |-> None,
                         signed_url |-> o, needs_db_storage |-> TRUE]]
               /\ active_conversations' =
                        [active_conversations EXCEPT ![cid] = o]
               /\ resp' = Response("initiate_call", HttpOk, TRUE)
    /\ UNCHANGED <<relayVars, notifVars, accepting, auxVars>>

\* The notification_data dict pushed to the user's socket.
notification_data(id, fm, sp) ==
    [type |-> "notification", notification_id |-> id, first_message |-> fm,
     system_prompt |-> sp, status |-> "pending_notification"]

\* send_json on a notification socket: raises once the peer is gone.
NotifCanSend(s) == nws[s] = "open"

\* Mutant: a failed push fails the request and creates no record.
trigger_notification_SendFatal(fm, sp) ==
    /\ Objs \ Allocated # {}
    /\ LET s == notification_connections["u1"]
           o == NewObj
       IN IF s # NoRec /\ ~NotifCanSend(s)
          THEN /\ resp' = Response("trigger_notification", HttpServerError,
                                   FALSE)
               /\ UNCHANGED <<regVars, notif_sent>>
          ELSE /\ conv' = [conv EXCEPT ![o] =
                      [status |-> "pending_notification", websocket |-> NoRec,
                       first_message |-> fm, system_prompt |-> sp,
                       signed_url |-> NoRec, needs_db_storage |-> TRUE]]
               /\ active_conversations' =
                      [active_conversations EXCEPT ![NotifId] = o]
               /\ notif_sent' =
                      IF s # NoRec
                      THEN [notif_sent EXCEPT ![s] =
                              Append(@, notification_data(NotifId, fm, sp))]
                      ELSE notif_sent
               /\ resp' = Response("trigger_notification", HttpOk, FALSE)
    /\ UNCHANGED <<relayVars, notification_connections, nws, accepting, auxVars>>

\* POST /trigger-notification
trigger_notification(fm, sp) ==
    /\ Objs \ Allocated # {}
    /\ LET o == NewObj
       IN /\ conv' = [conv EXCEPT ![o] =
                   [status |-> "pending_notification", websocket |-> NoRec,
                    first_message |-> fm, system_prompt |-> sp,
                    signed_url |-> NoRec, needs_db_storage |-> TRUE]]
          /\ active_conversations' =
                   [active_conversations EXCEPT ![NotifId] = o]
    /\ LET s == notification_connections["u1"]
       IN notif_sent' =
              IF s # NoRec /\ NotifCanSend(s)
              THEN [notif_sent EXCEPT
                       ![s] = Append(@, notification_data(NotifId, fm, sp))]
              ELSE \* no socket, or the send raised and was logged
                   notif_sent
    /\ resp' = Response("trigger_notification", HttpOk, FALSE)
    /\ UNCHANGED <<relayVars, notification_connections, nws, accepting, auxVars>>

\* Mutant: the record is stored under the new id and the notification id is
\* kept.
accept_notification_KeepsKey(notification_id, status) ==
    /\ IF ~Present(notification_id)
       THEN /\ resp' = Response("accept_notification", HttpNotFound, FALSE)
            /\ UNCHANGED regVars
       ELSE LET o == active_conversations[notification_id]
            IN IF conv[o].status # "pending_notification"
               THEN /\ resp' = Response("accept_notification", HttpBadRequest,
                                        FALSE)
                    /\ UNCHANGED regVars
               ELSE IF status # HttpOk
               THEN /\ resp' = Response("accept_notification", HttpServerError,
                                        TRUE)
                    /\ UNCHANGED regVars
               ELSE /\ conv' = [conv EXCEPT ![o].status = "pending",
                                            ![o].signed_url = o]
                    /\ active_conversations' =
                           [active_conversations EXCEPT ![ProvId] = o]
                    /\ resp' = Response("accept_notification", HttpOk, TRUE)
    /\ UNCHANGED <<relayVars, notifVars, accepting, auxVars>>

\* Mutant: the status check is missing.
accept_notification_NoStatusCheck(notification_id, status) ==
    /\ IF ~Present(notification_id)
       THEN /\ resp' = Response("accept_notification", HttpNotFound, FALSE)
            /\ UNCHANGED regVars
       ELSE LET o == active_conversations[notification_id]
            IN IF status # HttpOk
               THEN /\ resp' = Response("accept_notification", HttpServerError,
                                        TRUE)
                    /\ UNCHANGED regVars
               ELSE /\ conv' = [conv EXCEPT ![o].status = "pending",
                                            ![o].signed_url = o]
                    /\ active_conversations' =
                           [[active_conversations EXCEPT ![ProvId] = o]
                               EXCEPT ![notification_id] = NoRec]
                    /\ resp' = Response("accept_notification", HttpOk, TRUE)
    /\ UNCHANGED <<relayVars, notifVars, accepting, auxVars>>

\* POST /accept-notification/{notification_id}, when no other handler runs
\* during its provisioning call (accept_begin and accept_resume otherwise).
accept_notification(notification_id, status) ==
    /\ IF ~Present(notification_id)
       THEN /\ resp' = Response("accept_notification", HttpNotFound, FALSE)
            /\ UNCHANGED regVars
       ELSE LET o == active_conversations[notification_id]
            IN IF conv[o].status # "pending_notification"
               THEN /\ resp' = Response("accept_notification", HttpBadRequest,
                                        FALSE)
                    /\ UNCHANGED regVars
               ELSE IF status # HttpOk
               THEN \* the HTTPException is caught by except Exception
                    /\ resp' = Response("accept_notification", HttpServerError,
                                        TRUE)
                    /\ UNCHANGED regVars
               ELSE /\ conv' = [conv EXCEPT ![o].status = "pending",
                                            ![o].signed_url = o]
                    /\ active_conversations' =
                           [active_conversations EXCEPT
                               ![ProvId] = o, ![notification_id] = NoRec]
                    /\ resp' = Response("accept_notification", HttpOk,
                                        TRUE)
    /\ UNCHANGED <<relayVars, notifVars, accepting, auxVars>>

\* accept_notification up to its provisioning call: the id is present and the
\* record is in pending_notification; the request holds the record it looked
\* up and is suspended in the HTTP call.
accept_begin(r, notification_id) ==
    /\ accepting[r] = NoAccept
    /\ Present(notification_id)
    /\ conv[active_conversations[notification_id]].status
           = "pending_notification"
    /\ accepting' = [accepting EXCEPT ![r] =
                        [notification_id |-> notification_id,
                         conversation |-> active_conversations[notification_id]]]
    /\ resp' = NoResponse
    /\ UNCHANGED <<regVars, relayVars, notifVars, auxVars>>

\* accept_notification from the provisioning answer on: the record the
\* request holds is updated and stored under the session id, then the
\* notification id is popped (KeyError, answered 500, if it is gone).  cid is
\* the session id of the provisioning answer.
accept_resume(r, status, cid) ==
    /\ accepting[r] # NoAccept
    /\ LET o == accepting[r].conversation
           id == accepting[r].notification_id
       IN IF status # HttpOk
          THEN /\ resp' = Response("accept_notification", HttpServerError,
                                   TRUE)
               /\ UNCHANGED regVars
          ELSE /\ conv' = [conv EXCEPT ![o].status = "pending",
                                       ![o].signed_url = SignedUrl(o, cid)]
               /\ active_conversations' =
                      [active_conversations EXCEPT
                          ![cid] = o, ![id] = NoRec]
               /\ resp' = Response("accept_notification",
                                   IF Present(id) THEN HttpOk
                                   ELSE HttpServerError, TRUE)
    /\ accepting' = [accepting EXCEPT ![r] = NoAccept]
    /\ UNCHANGED <<relayVars, notifVars, auxVars>>

\* WebSocket.send of starlette: refused once a close message has been sent.
CanSend(h) == application_state[h] = "CONNECTED"

\* A message sent on the client socket reaches the client only while the
\* client is connected; after the client has gone the ASGI server drops the
\* message or raises, and nothing is delivered.
ClientReachable(h) == CanSend(h) /\ client_state[h] = "CONNECTED"

EndCallNotice == [type |-> "end_call"]

\* Mutant: the request also closes the session's client socket.
end_call_ClosesSocket(id, gone_raises) ==
    /\ IF ~Present(id)
       THEN /\ resp' = Response("end_call", HttpNotFound, FALSE)
            /\ UNCHANGED <<regVars, client_sent, application_state>>
       ELSE LET o == active_conversations[id]
                ws == conv[o].websocket
            IN /\ client_sent' =
                      IF ws # NoRec /\ ClientReachable(ws)
                      THEN [client_sent EXCEPT
                               ![ws] = Append(@, EndCallNotice)]
                      ELSE client_sent
               /\ application_state' =
                      IF ws # NoRec
                      THEN [application_state EXCEPT ![ws] = "DISCONNECTED"]
                      ELSE application_state
               /\ active_conversations' =
                      [active_conversations EXCEPT ![id] = NoRec]
               /\ conv' = conv
               /\ resp' = Response("end_call", HttpOk, FALSE)
    /\ UNCHANGED <<pc, conversation_id, conversation, client_state,
                   ws_close, up_state, up_close, cpc, upc,
                   elevenlabs_msg, up_sent, client_msg, db_log, dialed, raised,
                   budget, notifVars, accepting, auxVars>>

\* POST /end-call/{conversation_id}; gone_raises: whether a send to a client
\* that has gone raises (it does, or the message is dropped, with the ASGI
\* server in use).
end_call(id, gone_raises) ==
    /\ IF ~Present(id)
       THEN /\ resp' = Response("end_call", HttpNotFound, FALSE)
            /\ UNCHANGED <<regVars, client_sent>>
       ELSE LET o == active_conversations[id]
                ws == conv[o].websocket
            IN IF /\ ws # NoRec
                  /\ \/ ~CanSend(ws)
                     \/ ~ClientReachable(ws) /\ gone_raises
               THEN \* send_json raises: the request fails
                    /\ resp' = Response("end_call", HttpServerError, FALSE)
                    /\ UNCHANGED <<regVars, client_sent>>
               ELSE /\ client_sent' =
                          IF ws # NoRec /\ ClientReachable(ws)
                          THEN [client_sent EXCEPT
                                   ![ws] = Append(@, EndCallNotice)]
                          ELSE client_sent
                    /\ active_conversations' =
                          [active_conversations EXCEPT ![id] = NoRec]
                    /\ conv' = conv
                    /\ resp' = Response("end_call", HttpOk, FALSE)
    /\ UNCHANGED <<pc, conversation_id, conversation, client_state,
                   application_state, ws_close, up_state, up_close, cpc, upc,
                   elevenlabs_msg, up_sent, client_msg, db_log, dialed, raised,
                   budget, notifVars, accepting, auxVars>>

\* ------------------------------------------------- relay handler: accept

\* WebSocket.close of starlette on a socket the application has not closed.
CloseClient(h, code, reason) ==
    /\ application_state' = [application_state EXCEPT ![h] = "DISCONNECTED"]
    /\ ws_close' = [ws_close EXCEPT ![h] = [code |-> code, reason |-> reason]]

\* Mutant: the unknown id is not rejected; the handler goes on to dial.
ws_reject_Dials(h) ==
    /\ pc' = [pc EXCEPT ![h] = "connecting"]
    /\ application_state' = [application_state EXCEPT ![h] = "CONNECTED"]
    /\ dialed' = Append(dialed, NoRec)
    /\ UNCHANGED <<regVars, conversation, ws_close>>

\* websocket_endpoint for an id that is not in the registry: close(code=1000)
\* and return, before the try block.
ws_reject(h) ==
    /\ CloseClient(h, CloseNormal, "")
    /\ pc' = [pc EXCEPT ![h] = "done"]
    /\ UNCHANGED <<regVars, conversation, dialed>>

\* websocket_endpoint, from accept to the dial of the signed url.
ws_open(h, id) ==
    /\ pc[h] = "idle"
    /\ client_state' = [client_state EXCEPT ![h] = "CONNECTED"]
    /\ conversation_id' = [conversation_id EXCEPT ![h] = id]
    /\ IF ~Present(id)
       THEN ws_reject(h)
       ELSE LET o == active_conversations[id]
            IN /\ conversation' = [conversation EXCEPT ![h] = o]
               /\ conv' = [conv EXCEPT ![o].status = "active",
                                       ![o].websocket = h]
               /\ IF conv[o].signed_url = NoRec
                  THEN \* KeyError: except Exception, then the finally block
                       /\ active_conversations' =
                              [active_conversations EXCEPT ![id] = NoRec]
                       /\ CloseClient(h, CloseNormal, "")
                       /\ pc' = [pc EXCEPT ![h] = "done"]
                       /\ UNCHANGED dialed
                  ELSE /\ application_state' =
                              [application_state EXCEPT ![h] = "CONNECTED"]
                       /\ dialed' = Append(dialed, conv[o].signed_url)
                       /\ pc' = [pc EXCEPT ![h] = "connecting"]
                       /\ UNCHANGED <<active_conversations, ws_close>>
    /\ resp' = NoResponse
    /\ UNCHANGED <<notifVars, accepting, auxVars>>
    /\ UNCHANGED <<up_state, up_close, cpc, upc, elevenlabs_msg, up_sent,
                   client_sent, client_msg, db_log, raised, budget>>

\* websockets.connect(signed_url): the dial succeeds or raises.
ws_connect(h, ok) ==
    /\ pc[h] = "connecting"
    /\ IF ok
       THEN /\ up_state' = [up_state EXCEPT ![h] = "open"]
            /\ pc' = [pc EXCEPT ![h] = "handshake"]
       ELSE /\ pc' = [pc EXCEPT ![h] = "cleanup"]
            /\ UNCHANGED up_state
    /\ resp' = NoResponse
    /\ UNCHANGED <<notifVars, accepting, auxVars>>
    /\ UNCHANGED <<regVars, conversation_id, conversation, client_state,
                   application_state, ws_close, up_close, cpc, upc, elevenlabs_msg,
                   up_sent, client_sent, client_msg, db_log, dialed, raised,
                   budget>>

\* The upstream peer closes its connection.
PeerCloseCodes == {CloseGoingAway}

upstream_close(h, code) ==
    /\ up_state[h] = "open"
    /\ pc[h] \in {"handshake", "relaying"}
    /\ up_state' = [up_state EXCEPT ![h] = "closed"]
    /\ up_close' = [up_close EXCEPT
                       ![h] = [by |-> "peer", code |-> code, reason |-> ""]]
    /\ resp' = NoResponse
    /\ UNCHANGED <<notifVars, accepting, auxVars>>
    /\ UNCHANGED <<regVars, pc, conversation_id, conversation,
                   client_state, application_state, ws_close, cpc, upc,
                   elevenlabs_msg, up_sent, client_sent, client_msg, db_log, dialed,
                   raised, budget>>

\* ---------------------------------------------- relay handler: handshake

MetadataType == "conversation_initiation_metadata"
ConfigType == "conversation_initiation_client_data"

Metadata(ev) == [type |-> MetadataType,
                 conversation_initiation_metadata_event |-> ev]

\* What the bounded-time first read on the upstream connection may give:
\* a timeout, or a text frame.
Timeout == [timeout |-> TRUE]
Ping(e) == [type |-> "ping", ping_event |-> [event_id |-> e]]

FirstFrames ==
    {Garbage,
     Metadata([conversation_id |-> ProvId]),
     Metadata([conversation_id |-> CanonId]),
     Metadata([agent_output_audio_format |-> "pcm_16000"]),
     [type |-> MetadataType],
     Ping(11)}

\* The init_config dict built from the handler's conversation object.
init_config(o) ==
    LET fm == IF conv[o].first_message # None
              THEN conv[o].first_message ELSE DefaultFirstMessage
        base == [type |-> ConfigType, first_message |-> fm,
                 start_conversation_immediately |-> TRUE]
    IN IF conv[o].system_prompt # None
       THEN [type |-> ConfigType, first_message |-> fm,
             start_conversation_immediately |-> TRUE,
             prompt |-> conv[o].system_prompt]
       ELSE base

\* The id the metadata assigns, when it differs from the handler's id.
RealId(h, m) ==
    IF /\ m.type = MetadataType
       /\ "conversation_initiation_metadata_event" \in DOMAIN m
       /\ "conversation_id" \in
              DOMAIN m.conversation_initiation_metadata_event
       /\ m.conversation_initiation_metadata_event.conversation_id
              # conversation_id[h]
    THEN m.conversation_initiation_metadata_event.conversation_id
    ELSE None

\* Whether the handshake sends the init config for first message m.
SendsConfig(m) ==
    /\ m.type = MetadataType
    /\ "conversation_initiation_metadata_event" \in DOMAIN m

\* Mutant: the old key is not popped.
Rekey_KeepOld(reg, old, new) == [reg EXCEPT ![new] = reg[old]]

\* The registry after active_conversations[new] = active_conversations[old];
\* active_conversations.pop(old, None).
Rekey(reg, old, new) == [reg EXCEPT ![new] = reg[old], ![old] = NoRec]

\* Mutant: the write is made under the id the socket was opened with.
StoredId_Provisional(h, real) == conversation_id[h]

\* The conversation_id db.store_conversation is called with: the handler's
\* conversation_id after it was set to the metadata's id.
StoredId(h, real) == real

\* Mutant: the flag is cleared whether or not the write succeeded.
NeedsStorageAfter_Cleared(dbok) == FALSE

\* needs_db_storage after the store_conversation call: cleared on success,
\* left set when the call raised (the except only logs).
NeedsStorageAfter(dbok) == ~dbok

\* The handshake fails: close(code=1001, reason) and return.
hs_fail(h, reason) ==
    /\ CloseClient(h, CloseGoingAway, reason)
    /\ pc' = [pc EXCEPT ![h] = "cleanup"]
    /\ UNCHANGED <<regVars, conversation_id, up_sent, db_log, cpc, upc>>

\* websocket_endpoint, the first upstream read up to the start of the pumps.
ws_handshake(h, m, dbok) ==
    /\ pc[h] = "handshake"
    /\ IF up_state[h] # "open"
       THEN \* recv raises ConnectionClosed
            hs_fail(h, "Error") /\ UNCHANGED client_sent
       ELSE IF m = Timeout
       THEN hs_fail(h, "Timeout waiting for ElevenLabs response")
            /\ UNCHANGED client_sent
       ELSE IF ~json_loads_ok(m)
       THEN hs_fail(h, "Error") /\ UNCHANGED client_sent
       ELSE /\ client_sent' = [client_sent EXCEPT ![h] = Append(@, m)]
            /\ LET real == RealId(h, m)
                   cid == IF real # None THEN real ELSE conversation_id[h]
               IN IF real # None /\ ~Present(conversation_id[h])
                  THEN \* KeyError in the rekey
                       hs_fail(h, "Error")
                  ELSE LET reg == IF real # None
                                  THEN Rekey(active_conversations,
                                             conversation_id[h], real)
                                  ELSE active_conversations
                           o == reg[cid]
                           store == real # None /\ conv[o].needs_db_storage
                       IN /\ active_conversations' = reg
                          /\ conversation_id' =
                                 [conversation_id EXCEPT ![h] = cid]
                          /\ IF store
                             THEN /\ db_log' =
                                       IF dbok
                                       THEN Append(db_log, StoredId(h, cid))
                                       ELSE db_log
                                  /\ conv' = [conv EXCEPT
                                        ![o].needs_db_storage =
                                            NeedsStorageAfter(dbok)]
                             ELSE UNCHANGED <<db_log, conv>>
                          /\ up_sent' =
                                 IF SendsConfig(m)
                                 THEN [up_sent EXCEPT ![h] =
                                         Append(@, init_config(conversation[h]))]
                                 ELSE up_sent
                          /\ pc' = [pc EXCEPT ![h] = "relaying"]
                          /\ cpc' = [cpc EXCEPT ![h] = "recv"]
                          /\ upc' = [upc EXCEPT ![h] = "recv"]
                          /\ UNCHANGED <<application_state, ws_close>>
    /\ resp' = NoResponse
    /\ UNCHANGED <<notifVars, accepting, auxVars>>
    /\ UNCHANGED <<conversation, client_state, up_state, up_close,
                   elevenlabs_msg, client_msg, dialed, raised, budget>>

\* --------------------------------------------- client -> upstream pump

\* What websocket.receive() may return: a binary frame, a text frame, or the
\* disconnect message.
Disconnect == [type |-> "websocket.disconnect"]
EndCall == [type |-> "end_call"]
ContextualUpdate == [type |-> "contextual_update", text |-> "hint"]
ClientAudio == [type |-> "audio", audio_event |-> [audio_base_64 |-> B64Audio]]
ClientOther == [type |-> "hello"]

ClientMsgs ==
    {[bytes |-> OddFrame], [bytes |-> EvenFrame],
     [text |-> Garbage], [text |-> EndCall], [text |-> ContextualUpdate],
     [text |-> ClientAudio], [text |-> ClientOther], Disconnect}

\* The user_audio_data dict built for a binary frame.
user_audio_data(frame) ==
    [type |-> "audio", audio_event |-> [audio_base_64 |-> frame]]

\* PCM check of a binary frame: len(audio_bytes) % 2 != 0.
OddLength(frame) == Len(frame.bytes) % 2 # 0

\* Mutant: a text message of an unknown type is passed on upstream.
ClientForward_PassesUnknown(m) ==
    IF "text" \in DOMAIN m /\ json_loads_ok(m.text) THEN <<m.text>> ELSE <<>>

\* What the pump sends upstream for client message m, as a sequence (empty
\* when the message is dropped).
ClientForward(m) ==
    IF "bytes" \in DOMAIN m
    THEN IF OddLength(m.bytes) THEN <<>>
         ELSE IF ~json_dumps_ok(user_audio_data(m.bytes)) THEN <<>>
         ELSE <<user_audio_data(m.bytes)>>
    ELSE IF "text" \in DOMAIN m
    THEN IF ~json_loads_ok(m.text) THEN <<>>
         ELSE IF m.text.type = "contextual_update" /\ "text" \in DOMAIN m.text
         THEN <<[type |-> "contextual_update", text |-> m.text.text]>>
         ELSE IF m.text.type = "audio" /\ "audio_event" \in DOMAIN m.text
         THEN <<[user_audio_chunk |-> m.text.audio_event.audio_base_64]>>
         ELSE <<>>
    ELSE <<>>

\* Whether client message m ends the pump loop.
EndsClientPump(m) ==
    /\ "text" \in DOMAIN m
    /\ json_loads_ok(m.text)
    /\ m.text.type = "end_call"

\* The reason the client pump gives when it closes upstream.
ClientDisconnected == "Client disconnected"

\* Mutant: the finally block leaves the upstream connection open.
client_pump_exit_NoClose(h) ==
    /\ cpc' = [cpc EXCEPT ![h] = "done"]
    /\ UNCHANGED <<up_state, up_close>>

\* Mutant: the finally block closes upstream with the going-away code and no
\* reason.
client_pump_exit_GoingAway(h) ==
    /\ cpc' = [cpc EXCEPT ![h] = "done"]
    /\ IF up_state[h] = "open"
       THEN /\ up_state' = [up_state EXCEPT ![h] = "closed"]
            /\ up_close' = [up_close EXCEPT
                               ![h] = [by |-> "relay", code |-> CloseGoingAway,
                                       reason |-> ""]]
       ELSE UNCHANGED <<up_state, up_close>>

\* The pump's finally block: close upstream if it is still open.
client_pump_exit(h) ==
    /\ cpc' = [cpc EXCEPT ![h] = "done"]
    /\ IF up_state[h] = "open"
       THEN /\ up_state' = [up_state EXCEPT ![h] = "closed"]
            /\ up_close' = [up_close EXCEPT
                               ![h] = [by |-> "relay", code |-> CloseNormal,
                                       reason |-> ClientDisconnected]]
       ELSE UNCHANGED <<up_state, up_close>>

\* handle_client_audio: one turn of the loop (receive, then process).
handle_client_audio(h, m) ==
    /\ pc[h] = "relaying"
    /\ cpc[h] = "recv"
    /\ IF client_state[h] # "CONNECTED"
       THEN \* receive() raises RuntimeError after a disconnect message
            /\ client_pump_exit(h)
            /\ UNCHANGED <<client_state, client_msg, up_sent, budget>>
       ELSE /\ budget > 0
            /\ budget' = budget - 1
            /\ client_msg' = [client_msg EXCEPT ![h] = m]
            /\ IF m = Disconnect
               THEN /\ client_state' =
                           [client_state EXCEPT ![h] = "DISCONNECTED"]
                    /\ UNCHANGED <<cpc, up_state, up_close, up_sent>>
               ELSE IF EndsClientPump(m)
               THEN /\ client_pump_exit(h)
                    /\ UNCHANGED <<client_state, up_sent>>
               ELSE /\ up_sent' =
                           IF up_state[h] = "open"
                           THEN [up_sent EXCEPT
                                    ![h] = @ \o ClientForward(m)]
                           ELSE up_sent
                    /\ UNCHANGED <<client_state, cpc, up_state, up_close>>
    /\ resp' = NoResponse
    /\ UNCHANGED <<notifVars, accepting, auxVars>>
    /\ UNCHANGED <<regVars, pc, conversation_id, conversation,
                   application_state, ws_close, upc, elevenlabs_msg, client_sent,
                   db_log, dialed, raised>>

\* --------------------------------------------- upstream -> client pump

UpAudio == [type |-> "audio", audio_event |-> [audio_base_64 |-> B64Audio]]
UpError == [type |-> "error", error |-> [message |-> "boom"]]
UpTranscript == [type |-> "user_transcript", text |-> "hi"]

\* A decoded JSON string, kept apart from the records that stand for JSON
\* objects (Python dicts).
JsonStr(s) == [str |-> s]

IsDict(v) == "str" \notin DOMAIN v

\* An error event whose "error" field is a string instead of an object.
UpErrorText == [type |-> "error", error |-> JsonStr("quota_exceeded")]

UpstreamMsgs ==
    {Garbage, Ping(11), [type |-> "ping"], UpAudio, UpError, UpErrorText,
     UpTranscript}

\* base64.b64decode
b64decode(s) == [bytes |-> s.b64]

Pong(e) == [type |-> "pong", event_id |-> e]

IsPing(m) == m.type = "ping" /\ "ping_event" \in DOMAIN m

\* Mutant: the pong does not echo the event id.
UpstreamReply_NoEcho(m) ==
    IF json_loads_ok(m) /\ IsPing(m) THEN <<Pong(0)>> ELSE <<>>

\* What the pump sends upstream for upstream message m.
UpstreamReply(m) ==
    IF json_loads_ok(m) /\ IsPing(m)
    THEN <<Pong(m.ping_event.event_id)>>
    ELSE <<>>

\* What the pump sends to the client for upstream message m.
UpstreamForward(m) ==
    IF ~json_loads_ok(m) THEN <<>>
    ELSE IF IsPing(m) THEN <<>>
    ELSE IF m.type = "audio" /\ "audio_event" \in DOMAIN m
    THEN <<b64decode(m.audio_event.audio_base_64)>>
    ELSE IF m.type = "error" /\ "error" \in DOMAIN m /\ ~IsDict(m.error)
    THEN \* data.get("error", {}).get(...) raises AttributeError before the
         \* send; the inner except logs it
         <<>>
    ELSE <<m>>

ClosedNotice == [type |-> "end_call", reason |-> "connection_closed"]

\* Mutant: the pump's finally block sends nothing.
ExitNotice_None == <<>>

\* What the pump's finally block sends to the client.
ExitNotice == <<ClosedNotice>>

\* handle_elevenlabs_messages: await elevenlabs_ws.recv()
upstream_recv(h, m) ==
    /\ pc[h] = "relaying"
    /\ upc[h] = "recv"
    /\ IF up_state[h] # "open"
       THEN \* ConnectionClosed: leave the loop, run the finally block
            /\ upc' = [upc EXCEPT ![h] = "done"]
            /\ client_sent' =
                   IF ClientReachable(h)
                   THEN [client_sent EXCEPT ![h] = @ \o ExitNotice]
                   ELSE client_sent
            /\ UNCHANGED <<elevenlabs_msg, budget>>
       ELSE /\ budget > 0
            /\ budget' = budget - 1
            /\ elevenlabs_msg' = [elevenlabs_msg EXCEPT ![h] = m]
            /\ upc' = [upc EXCEPT ![h] = "process"]
            /\ UNCHANGED client_sent
    /\ resp' = NoResponse
    /\ UNCHANGED <<notifVars, accepting, auxVars>>
    /\ UNCHANGED <<regVars, pc, conversation_id, conversation,
                   client_state, application_state, ws_close, up_state,
                   up_close, cpc, up_sent, client_msg, db_log, dialed, raised>>

\* Mutant: the new messages overtake the ones sent before.
SendAll_Overtaking(sent, msgs) == msgs \o sent

\* A socket's sent stream after msgs were sent on it, one await at a time.
SendAll(sent, msgs) == sent \o msgs

\* handle_elevenlabs_messages: the body of the loop for the message received.
upstream_process(h) ==
    /\ pc[h] = "relaying"
    /\ upc[h] = "process"
    /\ upc' = [upc EXCEPT ![h] = "recv"]
    /\ up_sent' = IF up_state[h] = "open"
                  THEN [up_sent EXCEPT ![h] = @ \o UpstreamReply(elevenlabs_msg[h])]
                  ELSE up_sent
    /\ client_sent' = IF ClientReachable(h)
                      THEN [client_sent EXCEPT
                               ![h] = SendAll(@, UpstreamForward(elevenlabs_msg[h]))]
                      ELSE client_sent
    /\ resp' = NoResponse
    /\ UNCHANGED <<notifVars, accepting, auxVars>>
    /\ UNCHANGED <<regVars, pc, conversation_id, conversation,
                   client_state, application_state, ws_close, up_state,
                   up_close, cpc, elevenlabs_msg, client_msg, db_log, dialed, raised,
                   budget>>

\* ------------------------------------------------ relay handler: cleanup

\* Mutant: gather returns as soon as one pump has returned.
GatherReturned_FirstPump(h) == cpc[h] = "done" \/ upc[h] = "done"

\* asyncio.gather of the two pumps returns when both have returned.
GatherReturned(h) == cpc[h] = "done" /\ upc[h] = "done"

\* websocket_endpoint after the pumps, or after a failure: the async with
\* block closes upstream, then the finally block runs.
ws_cleanup(h) ==
    /\ \/ pc[h] = "cleanup"
       \/ pc[h] = "relaying" /\ GatherReturned(h)
    /\ pc' = [pc EXCEPT ![h] = "done"]
    /\ IF up_state[h] = "open"
       THEN /\ up_state' = [up_state EXCEPT ![h] = "closed"]
            /\ up_close' = [up_close EXCEPT
                               ![h] = [by |-> "relay", code |-> CloseNormal,
                                       reason |-> ""]]
       ELSE UNCHANGED <<up_state, up_close>>
    /\ active_conversations' =
           [active_conversations EXCEPT ![conversation_id[h]] = NoRec]
    /\ IF CanSend(h)
       THEN CloseClient(h, CloseNormal, "") /\ UNCHANGED raised
       ELSE \* client_state.CONNECTED is always truthy: close() is called
            \* again and raises RuntimeError
            /\ raised' = [raised EXCEPT ![h] = TRUE]
            /\ UNCHANGED <<application_state, ws_close>>
    /\ resp' = NoResponse
    /\ UNCHANGED <<notifVars, accepting, auxVars>>
    /\ UNCHANGED <<conv, conversation_id, conversation, client_state,
                   cpc, upc, elevenlabs_msg, up_sent, client_sent, client_msg, db_log,
                   dialed, budget>>

\* --------------------------------------------------- notification socket

ConnectionEstablished == [type |-> "connection_established"]

\* Mutant: a socket already registered for the user is kept.
notification_open_KeepsFirst(s, u) ==
    /\ nws[s] = "idle"
    /\ nws' = [nws EXCEPT ![s] = "open"]
    /\ notification_connections' =
           IF notification_connections[u] = NoRec
           THEN [notification_connections EXCEPT ![u] = s]
           ELSE notification_connections
    /\ notif_sent' = [notif_sent EXCEPT ![s] = Append(@, ConnectionEstablished)]
    /\ resp' = NoResponse
    /\ UNCHANGED <<regVars, relayVars, accepting, auxVars>>

\* notification_websocket, from accept to the receive loop.
notification_open(s, u) ==
    /\ nws[s] = "idle"
    /\ nws' = [nws EXCEPT ![s] = "open"]
    /\ notification_connections' = [notification_connections EXCEPT ![u] = s]
    /\ notif_sent' = [notif_sent EXCEPT ![s] = Append(@, ConnectionEstablished)]
    /\ resp' = NoResponse
    /\ UNCHANGED <<regVars, relayVars, accepting, auxVars>>

\* The client of notification socket s goes away.
notification_disconnect(s) ==
    /\ nws[s] = "open"
    /\ nws' = [nws EXCEPT ![s] = "gone"]
    /\ resp' = NoResponse
    /\ UNCHANGED <<regVars, relayVars, accepting, auxVars, notification_connections, notif_sent>>

\* notification_websocket: receive_text raises WebSocketDisconnect, the loop
\* breaks and the finally block pops the user's entry.
notification_cleanup(s, u) ==
    /\ nws[s] = "gone"
    /\ nws' = [nws EXCEPT ![s] = "done"]
    /\ notification_connections' =
           [notification_connections EXCEPT ![u] = NoRec]
    /\ resp' = NoResponse
    /\ UNCHANGED <<regVars, relayVars, accepting, auxVars, notif_sent>>

\* Mutant: a text message is answered.
TextReply_Echo == <<[type |-> "echo"]>>

\* What the receive loop sends back for a text message: nothing, the message
\* is only logged.
TextReply == <<>>

\* notification_websocket: receive_text returns a frame of the client.  A text
\* frame is logged; on a binary frame receive_text raises KeyError, the loop
\* breaks and the finally block pops the user's entry.
notification_frame(s, u, kind) ==
    /\ nws[s] = "open"
    /\ budget > 0
    /\ budget' = budget - 1
    /\ IF kind = "text"
       THEN /\ notif_sent' = [notif_sent EXCEPT ![s] = @ \o TextReply]
            /\ UNCHANGED <<nws, notification_connections>>
       ELSE /\ nws' = [nws EXCEPT ![s] = "done"]
            /\ notification_connections' =
                   [notification_connections EXCEPT ![u] = NoRec]
            /\ UNCHANGED notif_sent
    /\ resp' = NoResponse
    /\ UNCHANGED <<regVars, accepting, auxVars, pc, conversation_id, conversation,
                   client_state, application_state, ws_close, up_state,
                   up_close, cpc, upc, elevenlabs_msg, up_sent, client_sent,
                   client_msg, db_log, dialed, raised>>

\* ---------------------------------------------------- transcript analysis

\* How one attempt of the loop ends, from the outcomes of its two requests:
\* the second request is made only if the first answered 200 and the prompt
\* could be built.
AttemptOutcome(t, ao, co) ==
    IF ao = "read_timeout" THEN "agent_read_timeout"
    ELSE IF ao = "status" THEN "agent_status"
    ELSE IF ao = "error" THEN "agent_error"
    ELSE IF ~WellFormed(t) THEN "format_error"
    ELSE IF co = "read_timeout" THEN "claude_read_timeout"
    ELSE IF co = "status" THEN "claude_status"
    ELSE IF co = "bad_body" THEN "claude_bad_body"
    ELSE co

\* except httpx.ReadTimeout
IsReadTimeout(o) == o \in {"agent_read_timeout", "claude_read_timeout"}

IsAnswer(o) == o \in {"success", "failure"}

\* Mutant: every failed attempt but the last is retried.
ShouldRetry_AnyFailure(o, attempt) ==
    ~IsAnswer(o) /\ attempt < max_retries - 1

\* Whether the loop sleeps and goes on to the next attempt.
ShouldRetry(o, attempt) == IsReadTimeout(o) /\ attempt < max_retries - 1

\* analyze_transcript_with_claude is called.
analyze_begin(t) ==
    /\ analysis.pc = "idle"
    /\ analysis' = [analysis EXCEPT !.pc = "attempt", !.transcript = t]
    /\ resp' = NoResponse
    /\ UNCHANGED <<regVars, relayVars, notifVars, accepting, table>>

\* One iteration of the for loop, up to its return or its sleep.
analyze_attempt(ao, co) ==
    /\ analysis.pc = "attempt"
    /\ LET o == AttemptOutcome(analysis.transcript, ao, co)
       IN analysis' =
             [analysis EXCEPT
                 !.log = Append(@, o),
                 !.pc = IF IsAnswer(o) THEN "returned"
                        ELSE IF ShouldRetry(o, analysis.attempt) THEN "sleeping"
                        ELSE "returned",
                 !.result = IF IsAnswer(o) THEN ClaudeAnswer(o)
                            ELSE IF ShouldRetry(o, analysis.attempt) THEN @
                            ELSE ErrorResult(o)]
    /\ resp' = NoResponse
    /\ UNCHANGED <<regVars, relayVars, notifVars, accepting, table>>

\* await asyncio.sleep(retry_delay); continue
analyze_wake ==
    /\ analysis.pc = "sleeping"
    /\ analysis' = [analysis EXCEPT !.pc = "attempt", !.attempt = @ + 1,
                                    !.slept = @ + retry_delay]
    /\ resp' = NoResponse
    /\ UNCHANGED <<regVars, relayVars, notifVars, accepting, table>>

\* -------------------------------------------------- conversations table

\* The rows of the table with that conversation_id.
RowsOf(rows, id) == {i \in 1..Len(rows) : rows[i].conversation_id = id}

\* store_conversation up to the answer of its SELECT.
store_select(c, id, d) ==
    /\ table.call[c].pc = "idle"
    /\ table' = [table EXCEPT
                    !.call[c] = [pc |-> "selected", id |-> id, details |-> d,
                                 existing |-> RowsOf(table.rows, id) # {}]]
    /\ resp' = NoResponse
    /\ UNCHANGED <<regVars, relayVars, notifVars, accepting, analysis>>

\* store_conversation from the answer of its SELECT on: UPDATE when a row was
\* found, INSERT otherwise (which the table refuses, if it has a unique key
\* and a row with the id exists by now: the Error is logged and raised).
store_write(c) ==
    /\ table.call[c].pc = "selected"
    /\ LET id == table.call[c].id
           d == table.call[c].details
           rows == table.rows
       IN IF table.call[c].existing
          THEN table' = [table EXCEPT
                  !.rows = [i \in 1..Len(rows) |->
                               IF rows[i].conversation_id = id
                               THEN [rows[i] EXCEPT !.conversation_details = d]
                               ELSE rows[i]],
                  !.call[c].pc = "done",
                  !.finished = Append(@, c)]
          ELSE IF table.unique /\ RowsOf(rows, id) # {}
          THEN table' = [table EXCEPT !.call[c].pc = "raised",
                                      !.finished = Append(@, c)]
          ELSE table' = [table EXCEPT
                  !.rows = Append(@, [conversation_id |-> id,
                                      conversation_details |-> d]),
                  !.call[c].pc = "done",
                  !.finished = Append(@, c)]
    /\ resp' = NoResponse
    /\ UNCHANGED <<regVars, relayVars, notifVars, accepting, analysis>>

\* -------------------------------------------------------------------- Next

ClientTurn(h) == \E m \in ClientMsgs : handle_client_audio(h, m)
UpstreamTurn(h) == \E m \in UpstreamMsgs : upstream_recv(h, m)

Next ==
    \/ Allocated = {} /\ \E fm \in FirstMessages, st \in ProvisionStatuses :
           initiate_call(fm, st)
    \/ Allocated = {} /\ \E fm \in FirstMessages, sp \in SystemPrompts :
           trigger_notification(fm, sp)
    \/ accepting = NoAccepts /\ \E k \in Keys, st \in ProvisionStatuses :
           accept_notification(k, st)
    \/ \E k \in Keys : accept_begin(1, k)
    \/ \E st \in ProvisionStatuses : accept_resume(1, st, ProvId)
    \/ \E k \in Keys, r \in BOOLEAN : end_call(k, r)
    \/ \E h \in Relays, k \in Keys : ws_open(h, k)
    \/ \E h \in Relays, ok \in BOOLEAN : ws_connect(h, ok)
    \/ \E h \in Relays, c \in PeerCloseCodes : upstream_close(h, c)
    \/ \E h \in Relays, m \in FirstFrames \cup {Timeout}, dbok \in BOOLEAN :
           ws_handshake(h, m, dbok)
    \/ \E h \in Relays : ClientTurn(h)
    \/ \E h \in Relays : UpstreamTurn(h)
    \/ \E h \in Relays : upstream_process(h)
    \/ \E h \in Relays : ws_cleanup(h)

Spec == Init /\ [][Next]_vars

\* The event loop runs every task that can run: a pump whose receive can
\* return (a message, or the connection's close) is resumed, and the handler
\* is resumed once gather returns.  The peers are not obliged to send.
PumpResumes(h) ==
    \/ upstream_process(h)
    \/ up_state[h] # "open" /\ UpstreamTurn(h)
    \/ client_state[h] # "CONNECTED" /\ ClientTurn(h)
    \/ ws_cleanup(h)

FairSpec == Spec /\ \A h \in Relays : WF_vars(PumpResumes(h))

\* The notification side: notification sockets of one user, and the HTTP
\* operations on the registry.
NextN ==
    \/ Allocated = {} /\ \E fm \in FirstMessages, sp \in SystemPrompts :
           trigger_notification(fm, sp)
    \/ accepting = NoAccepts /\ \E k \in Keys, st \in ProvisionStatuses :
           accept_notification(k, st)
    \/ \E k \in Keys : accept_begin(1, k)
    \/ \E st \in ProvisionStatuses : accept_resume(1, st, ProvId)
    \/ \E k \in Keys, r \in BOOLEAN : end_call(k, r)
    \/ \E s \in NSocks, u \in Users : notification_open(s, u)
    \/ \E s \in NSocks : notification_disconnect(s)
    \/ \E s \in NSocks, u \in Users : notification_cleanup(s, u)
    \/ \E s \in NSocks, u \in Users, kind \in {"text", "bytes"} :
           notification_frame(s, u, kind)

SpecN == Init /\ [][NextN]_vars

\* Two relay sockets and one session: every relay step may be taken by either
\* handler.
Next2 ==
    \/ Allocated = {} /\ \E fm \in FirstMessages, st \in ProvisionStatuses :
           initiate_call(fm, st)
    \/ \E h \in Handlers, k \in Keys : ws_open(h, k)
    \/ \E h \in Handlers, ok \in BOOLEAN : ws_connect(h, ok)
    \/ \E h \in Handlers, c \in PeerCloseCodes : upstream_close(h, c)
    \/ \E h \in Handlers, m \in FirstFrames \cup {Timeout}, dbok \in BOOLEAN :
           ws_handshake(h, m, dbok)
    \/ \E h \in Handlers : ClientTurn(h)
    \/ \E h \in Handlers : UpstreamTurn(h)
    \/ \E h \in Handlers : upstream_process(h)
    \/ \E h \in Handlers : ws_cleanup(h)

Spec2 == Init /\ [][Next2]_vars

\* The HTTP operations on the registry alone, with up to two records and two
\* accept_notification requests in flight together, each with the session id
\* its provisioning answer carries.
NextA ==
    \/ \E fm \in FirstMessages, st \in ProvisionStatuses :
           initiate_call(fm, st)
    \/ \E fm \in FirstMessages, sp \in SystemPrompts :
           trigger_notification(fm, sp)
    \/ \E r \in Reqs, k \in Keys : accept_begin(r, k)
    \/ \E r \in Reqs, st \in ProvisionStatuses, cid \in ProvIds :
           accept_resume(r, st, cid)
    \/ \E k \in Keys, g \in BOOLEAN : end_call(k, g)

SpecA == Init /\ [][NextA]_vars

\* One call of analyze_transcript_with_claude, with every outcome of its
\* requests.
NextT ==
    \/ \E t \in Transcripts : analyze_begin(t)
    \/ \E ao \in AgentOutcomes, co \in ClaudeOutcomes : analyze_attempt(ao, co)
    \/ analyze_wake

SpecT == Init /\ [][NextT]_vars

\* The event loop resumes the coroutine: each request ends (the client has
\* timeouts) and the sleep ends.
FairSpecT == SpecT /\ WF_vars(NextT)

\* store_conversation calls of two callers on a table with or without a
\* unique key on conversation_id.
InitD == InitApp /\ table \in {NoStore(u) : u \in BOOLEAN}

NextD ==
    \/ \E c \in Callers, id \in StoreIds, d \in Details : store_select(c, id, d)
    \/ \E c \in Callers : store_write(c)

SpecD == InitD /\ [][NextD]_vars

\* ================================================================== claims

IsConfig(x) == "type" \in DOMAIN x /\ x.type = ConfigType

\* The init-config messages among msgs.
Configs(msgs) == {i \in 1..Len(msgs) : IsConfig(msgs[i])}

PumpsStarted(h) == cpc[h] # "off"

\* C1: for every relay session that starts its two pumps, exactly one
\* init-config message has been sent upstream, and it is the first message
\* sent upstream (so it precedes any forwarded client audio), whatever first
\* upstream message the handshake accepted.
C1_ConfigOnceBeforeAudio ==
    \A h \in Handlers :
        PumpsStarted(h) =>
            /\ Cardinality(Configs(up_sent[h])) = 1
            /\ IsConfig(up_sent[h][1])

\* The client pump receives message m (the socket still being connected).
ClientReceives(h, m) ==
    handle_client_audio(h, m) /\ client_state[h] = "CONNECTED"

\* C2: for every even-length binary frame the client pump receives while
\* relaying (upstream open), exactly one audio-event message carrying the
\* same payload bytes is sent on the upstream connection.
C2_EvenFrameForwarded ==
    [][\A h \in Handlers :
          (ClientReceives(h, [bytes |-> EvenFrame]) /\ up_state[h] = "open")
          => up_sent'[h] = Append(up_sent[h], user_audio_data(EvenFrame))]_vars

\* C3: an odd-length binary frame is never forwarded upstream and ends
\* neither pump, and an even-length frame that follows it is forwarded.
C3_OddDroppedEvenForwarded ==
    [][\A h \in Handlers :
          /\ ClientReceives(h, [bytes |-> OddFrame])
             => /\ up_sent'[h] = up_sent[h]
                /\ cpc'[h] = "recv"
                /\ upc'[h] = upc[h]
          /\ (/\ client_msg[h] = [bytes |-> OddFrame]
              /\ ClientReceives(h, [bytes |-> EvenFrame])
              /\ up_state[h] = "open")
             => up_sent'[h] = Append(up_sent[h], user_audio_data(EvenFrame))
      ]_vars

\* The upstream pump processes a decoded message of type ping.
ProcessesPing(h) ==
    /\ upstream_process(h)
    /\ json_loads_ok(elevenlabs_msg[h])
    /\ elevenlabs_msg[h].type = "ping"

\* C4 as claimed: for every upstream message of type ping the pump sends a
\* pong with the same event id upstream before it receives the next
\* upstream message, and does not forward the ping to the client.
C4_EveryPingAnswered ==
    [][\A h \in Handlers :
          ProcessesPing(h) =>
             /\ \E e \in {11} :
                   /\ up_sent'[h] = Append(up_sent[h], Pong(e))
                   /\ "ping_event" \in DOMAIN elevenlabs_msg[h]
                         => e = elevenlabs_msg[h].ping_event.event_id
             /\ client_sent'[h] = client_sent[h]
             /\ upc'[h] = "recv"]_vars

\* C4 as amended: for every upstream ping that carries a ping_event with an
\* event id, processed while the upstream connection is open, the pump sends
\* a pong with the same event id upstream before it receives the next
\* upstream message, and does not forward the ping to the client.
C4_PingWithEventAnswered ==
    [][\A h \in Handlers :
          (/\ ProcessesPing(h)
           /\ "ping_event" \in DOMAIN elevenlabs_msg[h]
           /\ up_state[h] = "open")
          => /\ up_sent'[h] =
                   Append(up_sent[h],
                          Pong(elevenlabs_msg[h].ping_event.event_id))
             /\ client_sent'[h] = client_sent[h]
             /\ upc'[h] = "recv"]_vars

\* A ping with event id 11 was processed and its pong is the last message
\* sent upstream.
C4_Witness ==
    \E h \in Handlers :
        /\ elevenlabs_msg[h] = Ping(11)
        /\ upc[h] = "recv"
        /\ up_sent[h] # <<>>
        /\ up_sent[h][Len(up_sent[h])] = Pong(11)

\* The client pump left its loop on an end_call message from the client.
EndCallSeen(h) == cpc[h] = "done" /\ client_msg[h] = [text |-> EndCall]

\* The handler's session record is under no key of the registry.
RecordAbsent(h) ==
    \A k \in Keys : active_conversations[k] # conversation[h]

ClientSocketClosed(h) == application_state[h] = "DISCONNECTED"

\* C5 as claimed: when the client sends end_call while relaying, then
\* eventually the upstream connection has been closed with code 1000, the
\* session record is absent from the registry and the client socket is
\* closed.
C5_EndCallClosesWith1000 ==
    \A h \in Handlers :
        EndCallSeen(h) ~>
            (/\ up_state[h] = "closed"
             /\ up_close[h].code = CloseNormal
             /\ RecordAbsent(h)
             /\ ClientSocketClosed(h))

\* C5 as amended: when the client sends end_call while relaying, then
\* eventually the upstream connection is closed (by the relay with code
\* 1000, unless the upstream peer had closed it before), the session record
\* is absent from the registry and the client socket is closed.
C5_EndCallTearsDown ==
    \A h \in Handlers :
        EndCallSeen(h) ~>
            (/\ up_state[h] = "closed"
             /\ up_close[h].by = "relay" => up_close[h].code = CloseNormal
             /\ RecordAbsent(h)
             /\ ClientSocketClosed(h))

\* The handler returned after a client end_call that found upstream open.
C5_Witness ==
    \E h \in Handlers :
        /\ EndCallSeen(h)
        /\ pc[h] = "done"
        /\ up_close[h].by = "relay"
        /\ up_close[h].code = CloseNormal
        /\ RecordAbsent(h)
        /\ ClientSocketClosed(h)

\* The handshake step of handler h accepts first frame m and starts the pumps.
HandshakeAccepts(h, m) ==
    /\ pc[h] = "handshake"
    /\ pc'[h] = "relaying"
    /\ client_sent'[h] = Append(client_sent[h], m)

\* C6: when the handshake metadata carries a canonical id different from the
\* provisional id the socket was opened with, then after the handshake the
\* registry has no entry under the provisional id and one entry under the
\* canonical id, and that entry's first_message and system_prompt equal the
\* values the record held before the rekey.
C6_RekeyOnHandshake ==
    [][\A h \in Handlers, m \in FirstFrames \ {Garbage} :
          (HandshakeAccepts(h, m) /\ RealId(h, m) # None) =>
             LET old == conversation_id[h]
                 new == RealId(h, m)
                 o == active_conversations[old]
             IN /\ active_conversations'[old] = NoRec
                /\ active_conversations'[new] = o
                /\ o # NoRec
                /\ conv'[o].first_message = conv[o].first_message
                /\ conv'[o].system_prompt = conv[o].system_prompt
                /\ conversation_id'[h] = new]_vars

\* A handshake rekeyed a notification-born record that carries a first
\* message and a system prompt.
C6_Witness ==
    \E h \in Handlers :
        /\ pc[h] = "relaying"
        /\ conversation_id[h] = CanonId
        /\ active_conversations[ProvId] = NoRec
        /\ active_conversations[CanonId] = conversation[h]
        /\ conv[conversation[h]].first_message = "fm1"
        /\ conv[conversation[h]].system_prompt = "sp1"

\* C7: accept_notification on an id absent from the registry fails with 404,
\* and on a record whose status is not pending_notification fails with 400;
\* in both cases the registry and the record are unchanged and no upstream
\* provisioning call is made.
C7_AcceptRejects ==
    [][\A k \in Keys, st \in ProvisionStatuses :
          accept_notification(k, st) =>
             /\ ~Present(k) =>
                   /\ resp' = Response("accept_notification", HttpNotFound,
                                       FALSE)
                   /\ UNCHANGED regVars
             /\ (Present(k) /\ conv[active_conversations[k]].status
                                  # "pending_notification") =>
                   /\ resp' = Response("accept_notification", HttpBadRequest,
                                       FALSE)
                   /\ UNCHANGED regVars]_vars

\* An accept on a record in status active was refused with 400.
C7_Witness ==
    /\ resp = Response("accept_notification", HttpBadRequest, FALSE)
    /\ \E k \in Keys : Present(k)
                       /\ conv[active_conversations[k]].status = "active"

\* C8: for any session id present in the registry, the first of two
\* sequential /end-call requests returns success and removes the id, and the
\* second (on the id now absent) returns 404.
C8_EndCallTwice ==
    [][\A k \in Keys, r \in BOOLEAN :
          end_call(k, r) =>
             /\ Present(k) => /\ resp'.code = HttpOk
                              /\ active_conversations'[k] = NoRec
             /\ ~Present(k) => resp'.code = HttpNotFound]_vars

\* First upstream frames the handshake must refuse: a timeout, a frame that
\* does not decode, a frame of another type than the initiation metadata.
BadFirstFrames ==
    {m \in FirstFrames \cup {Timeout} :
        m = Timeout \/ m = Garbage \/ m.type # MetadataType}

\* C9: if the first upstream message times out, fails to decode or has
\* another type than the initiation metadata, the session is aborted: no pump
\* is started, no init config is sent, and the client socket is closed with
\* code 1001 and a reason string.
C9_BadFirstFrameAborts ==
    [][\A h \in Handlers, m \in BadFirstFrames :
          (up_state[h] = "open" /\ \E dbok \in BOOLEAN : ws_handshake(h, m, dbok))
          => /\ pc'[h] = "cleanup"
             /\ cpc'[h] = "off" /\ upc'[h] = "off"
             /\ up_sent'[h] = up_sent[h]
             /\ ws_close'[h].code = CloseGoingAway
             /\ ws_close'[h].reason # ""]_vars

\* C10: a relay socket opened with an id that is not in the registry is
\* closed with code 1000 at once: nothing is dialed, no pump runs, the
\* handler has returned and the registry is unchanged.
C10_UnknownIdRejected ==
    [][\A h \in Handlers, k \in Keys :
          (ws_open(h, k) /\ ~Present(k)) =>
             /\ ws_close'[h] = [code |-> CloseNormal, reason |-> ""]
             /\ application_state'[h] = "DISCONNECTED"
             /\ pc'[h] = "done"
             /\ cpc'[h] = "off" /\ upc'[h] = "off"
             /\ up_state'[h] = "none"
             /\ dialed' = dialed
             /\ UNCHANGED regVars]_vars

\* A socket opened on an unknown id was closed with 1000 while the registry
\* holds a session under another id.
C10_Witness ==
    \E h \in Handlers :
        /\ pc[h] = "done"
        /\ conversation[h] = NoRec
        /\ ws_close[h] = [code |-> CloseNormal, reason |-> ""]
        /\ up_state[h] = "none"
        /\ \E k \in Keys : Present(k)

\* A relay handler that is dialing, handshaking or relaying.
LiveRelay(h) == pc[h] \in {"connecting", "handshake", "relaying"}

\* C11: at any time at most one live relay handler holds a given session
\* record: a second relay socket opened on an id whose record is already
\* active does not become a second concurrent relay on that record.
C11_SingleRelayPerRecord ==
    \A h1, h2 \in Handlers :
        (h1 # h2 /\ LiveRelay(h1) /\ LiveRelay(h2)) =>
            conversation[h1] # conversation[h2]

\* The legal edges of a session record's status.
LegalEdges ==
    {<<"pending_notification", "pending">>, <<"pending", "active">>,
     <<"active", "terminated">>}

\* The handshake of a handler holding record o succeeds in this step.
HandshakeSucceedsOn(o) ==
    \E h \in Handlers :
        /\ conversation[h] = o
        /\ pc[h] = "handshake"
        /\ pc'[h] = "relaying"

\* C12: every change of a session record's status follows a legal edge
\* (pending_notification to pending, pending to active, active to
\* terminated), and active is set only by a step in which the upstream
\* handshake of the record's relay succeeds.
C12_LegalStatusEdges ==
    [][\A o \in Objs :
          (conv[o].status # "free" /\ conv'[o].status # conv[o].status) =>
             /\ <<conv[o].status, conv'[o].status>> \in LegalEdges
             /\ conv'[o].status = "active" => HandshakeSucceedsOn(o)]_vars

\* C13: whenever a relay handler that found its id in the registry has
\* returned, the session record is under no registry key, the client socket
\* is closed, and no exception was raised out of the cleanup.
C13_CleanupOnEveryPath ==
    \A h \in Handlers :
        (pc[h] = "done" /\ conversation[h] # NoRec) =>
            /\ RecordAbsent(h)
            /\ ClientSocketClosed(h)
            /\ ~raised[h]

\* C14: after either pump has exited, the other pump eventually exits too and
\* the handler reaches its end (the session is closed).
C14_OtherPumpExits ==
    \A h \in Handlers :
        (pc[h] = "relaying" /\ (cpc[h] = "done" \/ upc[h] = "done"))
            ~> (cpc[h] = "done" /\ upc[h] = "done" /\ pc[h] = "done")

\* C15: for every session whose record has needs_db_storage set when the
\* handshake succeeds (the store accepting writes), the write-through is made
\* exactly once in the handshake and the flag is then cleared, whether or
\* not the metadata carries a different canonical id.
C15_PersistOnceOnHandshake ==
    [][\A h \in Handlers, m \in FirstFrames \ {Garbage} :
          (/\ ws_handshake(h, m, TRUE)
           /\ HandshakeAccepts(h, m)
           /\ SendsConfig(m)
           /\ Present(conversation_id[h])
           /\ conv[conversation[h]].needs_db_storage)
          => /\ Len(db_log') = Len(db_log) + 1
             /\ ~conv'[conversation[h]].needs_db_storage]_vars

\* C16: each signed url is dialed at most once over the whole run.
C16_SignedUrlDialedOnce ==
    \A i, j \in 1..Len(dialed) : i # j => dialed[i] # dialed[j]

\* C17: when the provisioning call returns a non-200 status, initiate_call
\* and accept_notification answer with that same status code and leave the
\* registry unchanged.
C17_ProvisioningStatusSurfaced ==
    [][\A st \in ProvisionStatuses \ {HttpOk} :
          /\ \A fm \in FirstMessages :
                initiate_call(fm, st) =>
                    /\ resp' = Response("initiate_call", st, TRUE)
                    /\ UNCHANGED regVars
          /\ \A k \in Keys :
                (/\ accept_notification(k, st)
                 /\ Present(k)
                 /\ conv[active_conversations[k]].status
                        = "pending_notification")
                => /\ resp' = Response("accept_notification", st, TRUE)
                   /\ UNCHANGED regVars]_vars

IsNotification(x) == x.type = "notification"

\* The notifications pushed on socket s so far.
Pushed(s) == {i \in 1..Len(notif_sent[s]) : IsNotification(notif_sent[s][i])}

\* C18: the notification registry holds one socket per user id; a newly
\* opened notification socket replaces the one registered before as the only
\* target of the user's notifications.
C18_NewSocketReplaces ==
    [][/\ \A s \in NSocks, u \in Users :
             notification_open(s, u) => notification_connections'[u] = s
       /\ \A fm \in FirstMessages, sp \in SystemPrompts, s \in NSocks :
             (trigger_notification(fm, sp) /\ notif_sent'[s] # notif_sent[s])
             => notification_connections["u1"] = s]_vars

\* Socket 2 was opened while socket 1 was registered and still open, and the
\* notification was pushed on socket 2 only.
C18_Witness ==
    \E s, t \in NSocks :
        /\ s # t
        /\ nws[s] = "open" /\ nws[t] = "open"
        /\ notification_connections["u1"] = t
        /\ Pushed(t) # {}
        /\ Pushed(s) = {}

\* C19: trigger_notification returns success and leaves a record in status
\* pending_notification under the notification id, whether no socket is
\* registered for the user, the registered socket takes the push, or the push
\* fails; it makes no provisioning call.
C19_TriggerAlwaysSucceeds ==
    [][\A fm \in FirstMessages, sp \in SystemPrompts :
          trigger_notification(fm, sp) =>
             /\ resp' = Response("trigger_notification", HttpOk, FALSE)
             /\ Present(NotifId)'
             /\ conv'[active_conversations'[NotifId]].status
                    = "pending_notification"
             /\ conv'[active_conversations'[NotifId]].first_message = fm
             /\ conv'[active_conversations'[NotifId]].system_prompt = sp]_vars

\* A trigger succeeded although the push on the registered socket failed.
C19_Witness ==
    /\ resp = Response("trigger_notification", HttpOk, FALSE)
    /\ \E s \in NSocks :
          /\ notification_connections["u1"] = s
          /\ nws[s] = "gone"
          /\ Pushed(s) = {}
    /\ Present(NotifId)

\* C20: a successful accept_notification on a record in pending_notification
\* moves the record from the notification id to the session id, sets status
\* pending, stores the signed url, leaves first_message and system_prompt as
\* they were, and opens no upstream connection.
C20_AcceptRekeys ==
    [][\A k \in Keys :
          (/\ accept_notification(k, HttpOk)
           /\ Present(k)
           /\ conv[active_conversations[k]].status = "pending_notification")
          => LET o == active_conversations[k]
             IN /\ resp' = Response("accept_notification", HttpOk, TRUE)
                /\ active_conversations'[k] = NoRec
                /\ active_conversations'[ProvId] = o
                /\ conv'[o].status = "pending"
                /\ conv'[o].signed_url # NoRec
                /\ conv'[o].first_message = conv[o].first_message
                /\ conv'[o].system_prompt = conv[o].system_prompt
                /\ dialed' = dialed
                /\ up_state' = up_state]_vars

\* An accept moved a notification record that carries a first message and a
\* system prompt.
C20_Witness ==
    /\ resp = Response("accept_notification", HttpOk, TRUE)
    /\ active_conversations[NotifId] = NoRec
    /\ Present(ProvId)
    /\ conv[active_conversations[ProvId]].status = "pending"
    /\ conv[active_conversations[ProvId]].first_message = "fm1"
    /\ conv[active_conversations[ProvId]].system_prompt = "sp1"
    /\ dialed = <<>>

\* C21: the relay handler starts its cleanup only after both pumps have
\* exited, and the exit of one pump leaves the other pump where it is
\* (suspended on its receive or processing a message): while a pump is still
\* running the handler neither leaves the relaying stage nor closes the client
\* socket.
C21_CleanupAfterBothPumps ==
    [][\A h \in Handlers :
          /\ (ws_cleanup(h) /\ PumpsStarted(h))
                 => (cpc[h] = "done" /\ upc[h] = "done")
          /\ (cpc[h] # "done" /\ cpc'[h] = "done")
                 => (upc'[h] = upc[h] /\ elevenlabs_msg'[h] = elevenlabs_msg[h])
          /\ (upc[h] # "done" /\ upc'[h] = "done")
                 => (cpc'[h] = cpc[h] /\ client_msg'[h] = client_msg[h])
          /\ (PumpsStarted(h) /\ (cpc[h] # "done" \/ upc[h] # "done"))
                 => /\ pc'[h] = pc[h]
                    /\ application_state'[h] = application_state[h]]_vars

\* One pump has returned while the other is in the middle of a message, and
\* the handler is still in gather.
C21_Witness ==
    \E h \in Handlers :
        pc[h] = "relaying" /\ cpc[h] = "done" /\ upc[h] = "process"

\* C22: whenever the client pump exits (end_call, client disconnect or an
\* exception from receive), an upstream connection that is still open is
\* closed by the relay with code 1000 and the reason "Client disconnected",
\* one already closed is left alone, and nothing is raised out of the pump.
C22_ClientPumpExitClosesUpstream ==
    [][\A h \in Handlers :
          (cpc[h] = "recv" /\ cpc'[h] = "done") =>
              /\ IF up_state[h] = "open"
                 THEN /\ up_state'[h] = "closed"
                      /\ up_close'[h] = [by |-> "relay", code |-> CloseNormal,
                                         reason |-> ClientDisconnected]
                 ELSE /\ up_state'[h] = up_state[h]
                      /\ up_close'[h] = up_close[h]
              /\ raised'[h] = raised[h]
              /\ pc'[h] = pc[h]]_vars

\* The client disconnected, and the pump's exit closed the open upstream
\* connection.
C22_Witness ==
    \E h \in Handlers :
        /\ cpc[h] = "done"
        /\ client_state[h] = "DISCONNECTED"
        /\ up_close[h] = [by |-> "relay", code |-> CloseNormal,
                          reason |-> ClientDisconnected]

\* C23: whenever the upstream pump exits it sends the client an end_call
\* event with reason connection_closed, which is delivered when the client
\* socket is still usable and absorbed when it is not; the exit raises
\* nothing, and once both pumps have returned the handler's cleanup can run.
C23_UpstreamPumpExitNotifies ==
    /\ [][\A h \in Handlers :
             (upc[h] = "recv" /\ upc'[h] = "done") =>
                 /\ client_sent'[h] =
                        IF ClientReachable(h)
                        THEN Append(client_sent[h], ClosedNotice)
                        ELSE client_sent[h]
                 /\ raised'[h] = raised[h]
                 /\ pc'[h] = pc[h]]_vars
    /\ [](\A h \in Handlers :
             (pc[h] = "relaying" /\ cpc[h] = "done" /\ upc[h] = "done")
                 => ENABLED ws_cleanup(h))

\* The upstream pump exited after the client had gone: no notice reached the
\* client, and the handler still finished its cleanup without raising.
C23_Witness ==
    \E h \in Handlers :
        /\ pc[h] = "done"
        /\ upc[h] = "done"
        /\ ~raised[h]
        /\ client_state[h] = "DISCONNECTED"
        /\ \A i \in 1..Len(client_sent[h]) : client_sent[h][i] # ClosedNotice

\* C24: an end-call request for an id present in the registry always removes
\* the record and answers 200, whatever the state of the record's client
\* socket.
C24_EndCallAlwaysDeletes ==
    [][\A k \in Keys, r \in BOOLEAN :
          (end_call(k, r) /\ Present(k)) =>
              /\ resp' = Response("end_call", HttpOk, FALSE)
              /\ active_conversations'[k] = NoRec]_vars

\* An end-call request for the session of handler h while its pumps run and
\* its client can be reached.
EndsRunningSession(k, r, h) ==
    /\ end_call(k, r)
    /\ Present(k)
    /\ conv[active_conversations[k]].websocket = h
    /\ pc[h] = "relaying"
    /\ ClientReachable(h)

C26_UnknownTextDropped ==
    [][\A h \in Handlers, m \in ClientMsgs :
          ClientReceives(h, m) =>
              /\ ("text" \in DOMAIN m /\
                  (~json_loads_ok(m.text) \/
                   m.text.type \notin {"end_call", "contextual_update",
                                       "audio"}))
                     => (up_sent'[h] = up_sent[h] /\ cpc'[h] = "recv")
              /\ (cpc'[h] = "done") <=> (m = [text |-> EndCall])]_vars

\* The pump received a text message of an unknown type and is back at its
\* receive.
C26_Witness ==
    \E h \in Handlers :
        /\ pc[h] = "relaying"
        /\ cpc[h] = "recv"
        /\ client_msg[h] = [text |-> ClientOther]

\* C27: every decoded upstream message whose type is neither ping nor audio
\* is sent to a reachable client as the unmodified decoded structure, once,
\* and the pump goes back to its receive.
C27_OtherTypesForwardedVerbatim ==
    [][\A h \in Handlers :
          (/\ upstream_process(h)
           /\ ClientReachable(h)
           /\ json_loads_ok(elevenlabs_msg[h])
           /\ elevenlabs_msg[h].type \notin {"ping", "audio"})
              => /\ client_sent'[h] = Append(client_sent[h], elevenlabs_msg[h])
                 /\ upc'[h] = "recv"]_vars

\* C28: each pump handles one message at a time and sends what it forwards
\* at the end of the stream sent so far: the upstream pump receives the next
\* message only after the processing of the previous one, and a forward never
\* overtakes an earlier one, so the forwarded stream keeps the arrival order.
C28_ForwardsInArrivalOrder ==
    [][\A h \in Handlers :
          /\ upstream_process(h) =>
                 /\ \E out \in {<<>>, UpstreamForward(elevenlabs_msg[h])} :
                        client_sent'[h] = client_sent[h] \o out
                 /\ \E out \in {<<>>, UpstreamReply(elevenlabs_msg[h])} :
                        up_sent'[h] = up_sent[h] \o out
                 /\ elevenlabs_msg'[h] = elevenlabs_msg[h]
          /\ (elevenlabs_msg'[h] # elevenlabs_msg[h])
                 => (upc[h] = "recv" /\ upc'[h] = "process" /\
                     client_sent'[h] = client_sent[h])
          /\ (upc[h] = "process") => (upc'[h] = "process" \/ upstream_process(h))
          /\ \A m \in ClientMsgs :
                 ClientReceives(h, m) =>
                     \E out \in {<<>>, ClientForward(m)} :
                         up_sent'[h] = up_sent[h] \o out]_vars

\* Two upstream messages were forwarded to the client in the order they
\* arrived.
C28_Witness ==
    \E h \in Handlers :
        /\ Len(client_sent[h]) >= 3
        /\ client_sent[h][2] = UpError
        /\ client_sent[h][3] = UpTranscript

\* C29: in every reachable state a session record in the registry that holds
\* a client socket reference has status active.
C29_SocketOnlyWhileActive ==
    \A k \in Keys :
        (Present(k) /\ conv[active_conversations[k]].websocket # NoRec)
            => conv[active_conversations[k]].status = "active"

\* C30: every durable write made by the relay handler happens in the
\* handshake, under the canonical id of the metadata the handshake received,
\* which differs from the id the socket was opened with, and when the write is
\* made the registry holds the record under the canonical id and no longer
\* under the replaced one.
C30_StoreUnderCanonicalId ==
    [][(db_log' # db_log) =>
          \E h \in Handlers :
              /\ pc[h] = "handshake"
              /\ db_log' = Append(db_log, conversation_id'[h])
              /\ conversation_id'[h] # conversation_id[h]
              /\ conversation_id'[h] =
                     client_sent'[h][Len(client_sent'[h])]
                         .conversation_initiation_metadata_event.conversation_id
              /\ active_conversations'[conversation_id[h]] = NoRec
              /\ active_conversations'[conversation_id'[h]] = conversation[h]]_vars

\* The write was made under the canonical id, and the provisional key is gone.
C30_Witness ==
    /\ db_log = <<CanonId>>
    /\ Present(CanonId)
    /\ ~Present(ProvId)

\* C31: in every state another handler can observe, a session record is
\* under at most one key of the registry.
C31_OneKeyPerRecord ==
    \A k1, k2 \in Keys :
        (k1 # k2 /\ Present(k1) /\ Present(k2))
            => active_conversations[k1] # active_conversations[k2]

\* C33: an accept_notification request succeeds only while its notification
\* id is registered and its record is still in pending_notification, and a
\* request whose provisioning call returns after another request accepted the
\* notification fails with 400 or 404 and leaves the registry and the records
\* unchanged.
C33_OneAcceptWins ==
    [][\A r \in Reqs, cid \in ProvIds :
          accept_resume(r, HttpOk, cid) =>
              LET o == accepting[r].conversation
                  id == accepting[r].notification_id
              IN /\ (resp'.code = HttpOk)
                        => /\ Present(id)
                           /\ conv[o].status = "pending_notification"
                 /\ (conv[o].status # "pending_notification")
                        => /\ resp'.code \in {HttpBadRequest, HttpNotFound}
                           /\ UNCHANGED regVars]_vars

\* C35: no step stores a record under a key that holds a different record.
C35_NoInsertOverwrites ==
    [][\A k \in Keys :
          (Present(k) /\ active_conversations'[k] # NoRec)
              => active_conversations'[k] = active_conversations[k]]_vars

\* C32: when the handler of a notification socket ends and the user's
\* registry entry holds another socket, the entry is left as it is.
C32_CleanupKeepsNewerSocket ==
    [][\A s \in NSocks, u \in Users :
          (notification_cleanup(s, u) /\ notification_connections[u] # s)
              => notification_connections'[u] = notification_connections[u]]_vars

IsEndCallEvent(m) == "type" \in DOMAIN m /\ m.type = "end_call"

\* C34: the client socket of a session is sent at most one end_call event.
C34_AtMostOneEndCall ==
    \A h \in Handlers :
        Cardinality({i \in 1..Len(client_sent[h]) :
                        IsEndCallEvent(client_sent[h][i])}) <= 1

\* The handshake of handler h on first frame m has to write the session to
\* durable storage: the frame carries another id than the one the socket was
\* opened with and the record under that id has its flag set.
HandshakeStores(h, m) ==
    /\ pc[h] = "handshake"
    /\ up_state[h] = "open"
    /\ RealId(h, m) # None
    /\ Present(conversation_id[h])
    /\ conv[active_conversations[conversation_id[h]]].needs_db_storage

\* C36: when the durable-storage write of the handshake fails, the flag
\* stays set and nothing is recorded as written, the init config is still sent
\* upstream, both pumps start, nothing is raised, and the record is in the
\* registry under the canonical id.
C36_StoreFailureNotFatal ==
    [][\A h \in Handlers, m \in FirstFrames \ {Garbage} :
          (HandshakeStores(h, m) /\ ws_handshake(h, m, FALSE)) =>
              LET o == active_conversations[conversation_id[h]]
              IN /\ conv'[o].needs_db_storage
                 /\ db_log' = db_log
                 /\ up_sent'[h] = Append(up_sent[h], init_config(conversation[h]))
                 /\ pc'[h] = "relaying"
                 /\ cpc'[h] = "recv" /\ upc'[h] = "recv"
                 /\ raised' = raised
                 /\ active_conversations'[RealId(h, m)] = o
                 /\ application_state'[h] = "CONNECTED"]_vars

\* A session relaying under its canonical id after the write failed.
C36_Witness ==
    \E h \in Handlers :
        /\ pc[h] = "relaying"
        /\ conversation_id[h] = CanonId
        /\ Present(CanonId)
        /\ conv[active_conversations[CanonId]].needs_db_storage
        /\ db_log = <<>>
        /\ Len(up_sent[h]) = 1 /\ IsConfig(up_sent[h][1])

\* C37: the first message the server sends on a notification socket is
\* connection_established, and a text message of the client changes neither
\* registry, closes nothing and is not answered.
C37_NotificationTextIgnored ==
    /\ [](\A s \in NSocks :
             nws[s] # "idle" =>
                 /\ notif_sent[s] # <<>>
                 /\ notif_sent[s][1] = ConnectionEstablished)
    /\ [][\A s \in NSocks, u \in Users :
             notification_frame(s, u, "text") =>
                 UNCHANGED <<notification_connections, regVars, notif_sent,
                             nws>>]_vars

\* A registered socket that has received a text message and nothing but the
\* greeting.
C37_Witness ==
    \E s \in NSocks :
        /\ nws[s] = "open"
        /\ \A t \in NSocks \ {s} : nws[t] = "idle"
        /\ budget < MaxMsgs
        /\ notification_connections["u1"] = s
        /\ notif_sent[s] = <<ConnectionEstablished>>

\* C38: analyze_transcript_with_claude makes at most max_retries attempts,
\* goes on to another attempt only after a read timeout, and returns: the
\* decoded answer after a successful attempt, otherwise (any other failure, or
\* the last attempt timing out) an error result whose overall_assessment is
\* "error"; a call that started always returns.
C38_AnalysisAlwaysReturns ==
    /\ [](LET log == analysis.log
              n == Len(analysis.log)
          IN /\ n <= max_retries
             /\ analysis.pc \in {"idle", "attempt", "sleeping", "returned"}
             /\ \A i \in 1..n :
                    (i < n \/ analysis.pc # "returned") => IsReadTimeout(log[i])
             /\ analysis.slept = retry_delay * analysis.attempt
             /\ analysis.pc = "returned" =>
                    /\ n >= 1
                    /\ IsReadTimeout(log[n]) => n = max_retries
                    /\ IF IsAnswer(log[n])
                       THEN analysis.result = ClaudeAnswer(log[n])
                       ELSE /\ "error" \in DOMAIN analysis.result
                            /\ analysis.result.analysis.overall_assessment
                                   = "error")
    /\ (analysis.pc = "attempt") ~> (analysis.pc = "returned")

\* The third attempt timed out and the error result was returned.
C38_Witness ==
    /\ analysis.pc = "returned"
    /\ Len(analysis.log) = max_retries
    /\ IsReadTimeout(analysis.log[max_retries])
    /\ analysis.result.analysis.overall_assessment = "error"

\* C39: when no store_conversation call is in progress, for every id some
\* call was made for: no call failed, the table holds exactly one row with the
\* id, and the row holds the details of the call that finished last.
C39_StoreIsUpsert ==
    (\A c \in Callers : table.call[c].pc # "selected") =>
        \A id \in StoreIds :
            LET fin == {i \in 1..Len(table.finished) :
                           table.call[table.finished[i]].id = id}
                last == CHOOSE i \in fin : \A j \in fin : j <= i
            IN fin # {} =>
                   /\ \A i \in fin : table.call[table.finished[i]].pc = "done"
                   /\ Cardinality(RowsOf(table.rows, id)) = 1
                   /\ \A j \in RowsOf(table.rows, id) :
                          table.rows[j].conversation_details
                              = table.call[table.finished[last]].details

====
